---- MODULE Spec2Model ----
(***************************************************************************)
(* Checkout payment protocol of algorand-checkout-dev-tool.               *)
(*                                                                         *)
(* The repository builds two programs (vite.config.ts and                 *)
(* vite.config.payment.ts):                                                *)
(*   "tool": the dev tool. Its wallet session, network identifier and     *)
(*           node client are the module-level singletons of                *)
(*           composables/useAlgorand.ts; the PaymentForm component        *)
(*           (payCheckout) pays a checkout through them.                   *)
(*   "page": the standalone payment page, which owns its wallet, its      *)
(*           node client and its checkout (pay).                           *)
(* A behaviour of this module is a run of one of them (variable app).     *)
(* Operations are the functions of the source; the caller may invoke an   *)
(* exported function at any time ("call") or through the template's       *)
(* button when the template offers it ("button").  Every await of the     *)
(* source is a suspension point: the function's continuation is a         *)
(* separate action, taken when the awaited collaborator answers.          *)
(***************************************************************************)
EXTENDS Integers, Sequences, FiniteSets, TLC

\* ------------------------------------------------------------------ bounds
MaxAttempts == 2
MaxConnects == 2
MaxTime == 8      \* clock steps a run of a view is followed for
MaxTimers == 3    \* timers a run of a view may create

\* --------------------------------------------------------------- constants
WaitRounds == 4
TickPeriod == 1000      \* ms, setInterval(updateTimeRemaining, 1000)
ReloadDelay == 1500     \* ms, setTimeout(() => window.location.reload(), 1500)
ClockStep == ReloadDelay - TickPeriod   \* ms between two instants of the clock

Null == "null"
NoTx == 0
NoAccount == "null"
Accounts == {"ADDR1", "ADDR2"}

Statuses == {"pending", "paid", "notified", "expired", "failed"}
NoCheckout == "none"

NetworkId == {"testnet", "mainnet"}
NETWORKS ==
  [n \in NetworkId |->
     IF n = "testnet"
       THEN [name |-> "TestNet", algodServer |-> "https://testnet-api.algonode.cloud",
             algodPort |-> "443", algodToken |-> ""]
       ELSE [name |-> "MainNet", algodServer |-> "https://mainnet-api.algonode.cloud",
             algodPort |-> "443", algodToken |-> ""]]

\* The node client that does not exist: module evaluation threw before
\* algodClient was assigned.
NoClient == [token |-> "", server |-> "", port |-> ""]

\* What localStorage.getItem('network') can return at start-up: nothing, a
\* registry key, or a value written by another version of the tool
\* (NetworkSelector still knows a 'localnet').
Absent == "absent"
PersistedValues == {Absent, "testnet", "mainnet", "localnet"}

\* window.__ALGOD_CONFIG__ / window.__NETWORK_ID__ of the payment page.
InjectedNetwork == "testnet"
InjectedClient == [token |-> "", server |-> "injected", port |-> "443"]

VARIABLES
  app,              \* "tool" | "page"
  storedNetwork,    \* localStorage 'network'
  networkId,        \* useAlgorand networkId / page networkId
  algodClient,      \* the active node client
  connectedAccount, \* the session's account, or NoAccount
  isInitialized,    \* useAlgorand isInitialized
  initPc,           \* init() / onMounted reconnectSession: "idle" | "restore" | "done"
  wallet,           \* the account of the wallet connector's (persisted) session, or NoAccount
  listening,        \* a 'disconnect' listener is registered on a live connector
  conn,             \* connect() invocations, in order of invocation
  checkout,         \* checkout.status of the view, or NoCheckout
  server,           \* the checkout record's status at the checkout-record collaborator
  loading, error, success, paying,
  att,              \* pay()/payCheckout()/signAndSendTransactions() invocations
  fetches,          \* post-payment re-fetches of the checkout record in flight
  lastCall,         \* the synchronous call made by the last step, with the state before it
  view,             \* the view that runs: "payment" | "stats" | "rates"
  mounted,          \* the view's component is mounted
  unloaded,         \* the document was unloaded (window.location.reload())
  now,              \* Date.now(), in ms since the view was mounted
  expiresAt,        \* new Date(checkout.expiresAt).getTime(), on the same scale
  timeRemaining,    \* the payment page's timeRemaining
  autoRefresh,      \* autoRefresh of the statistics / exchange-rate view
  refreshInterval,  \* refreshInterval of that view: a timer id, or NoTimer
  timers,           \* the live timers of the document
  nextTimer,        \* the id the next setInterval / setTimeout returns
  lastTick,         \* the last timer callback (or the call at mount) and what it saw
  record,           \* the checkout record's fields other than its status
  suggestedParams   \* what the node answers to getTransactionParams()

timerVars == <<view, mounted, unloaded, now, expiresAt, timeRemaining, autoRefresh,
               refreshInterval, timers, nextTimer, lastTick>>

orderVars == <<record, suggestedParams>>

vars == <<app, storedNetwork, networkId, algodClient, connectedAccount, isInitialized,
          initPc, wallet, listening, conn, checkout, server, loading, error, success, paying,
          att, fetches, lastCall, timerVars, orderVars>>

walletVars == <<connectedAccount, wallet, listening>>
netVars == <<storedNetwork, networkId, algodClient>>
viewVars == <<checkout, loading, error, success, paying>>

\* ----------------------------------------------------------------- helpers
isConnected == connectedAccount # NoAccount

createAlgodClient(network) ==
  IF network \in DOMAIN NETWORKS
    THEN [token |-> NETWORKS[network].algodToken,
          server |-> NETWORKS[network].algodServer,
          port |-> NETWORKS[network].algodPort]
    ELSE NoClient

\* The module was evaluated without throwing.
Loaded == algodClient # NoClient

NoCall == [op |-> "none", arg |-> Null, acct |-> NoAccount, net |-> Null,
           client |-> NoClient, disk |-> Null]

Call(op, arg) == [op |-> op, arg |-> arg, acct |-> connectedAccount, net |-> networkId,
                  client |-> algodClient, disk |-> storedNetwork]

Quiet == lastCall' = NoCall

SetAt(s, i, r) == [s EXCEPT ![i] = r]

\* ------------------------------------------------------- transaction group
\* The checkout record of a run.  The payment page reads the fields
\* merchantWallet and merchantName (part_000 10-11); PaymentForm reads the
\* same two under the names payeeWallet and payeeName (part_003 12-13).
\* The record carries no program id.
NoAppId == 0

\* Null: the field is null in the record.
Records ==
  [id : {"chk_1"}, appId : {1001, NoAppId}, assetId : {31}, amount : {1, 2500000},
   merchantWallet : {"MERCHANT", "not-an-address"}, merchantName : {Null, "", "Shop"},
   note : {Null, "order 7"}]

\* The strings that decode as an address.
IsAddress(a) == a \in {"ADDR1", "ADDR2", "MERCHANT"}

DefaultRecord ==
  [id |-> "chk_1", appId |-> 1001, assetId |-> 31, amount |-> 2500000,
   merchantWallet |-> "MERCHANT", merchantName |-> "Shop", note |-> "order 7"]

\* Answers of getTransactionParams(): the minimum fee is the node's.
ParamsChoices ==
  [fee : {0}, minFee : {1000, 2000}, flatFee : {FALSE}, firstValid : {100},
   lastValid : {1100}]

DefaultParams ==
  [fee |-> 0, minFee |-> 1000, flatFee |-> FALSE, firstValid |-> 100, lastValid |-> 1100]

\* part_000 189 / part_003 149: the fee written into the application call.
AppCallFee == 2000

\* algosdk.getApplicationAddress(appId): the address derived from the id.
getApplicationAddress(appId) == [derivedFrom |-> appId]

\* part_000 156-167: the method's signature, from which getSelector()
\* takes its four bytes.
MethodSignature == "payCheckout(axfer,string,address,string,uint64,string)void"

getSelector == [selectorOf |-> MethodSignature]

\* ABI encodings: a string is its length and its bytes, an address its
\* public key, a uint64 eight bytes, most significant first.
EncodeString(str) == [abi |-> "string", len |-> Len(str), utf8 |-> str]

EncodeAddress(a) == [abi |-> "address", publicKey |-> a]

RECURSIVE ShiftRightBytes(_, _)
ShiftRightBytes(n, count) ==
  IF count = 0 THEN n ELSE ShiftRightBytes(n \div 256, count - 1)

EncodeUint64(n) == [k \in 1..8 |-> ShiftRightBytes(n, 8 - k) % 256]

\* value || '' without the fallback.
OrEmpty_Identity(v) == v

\* part_000 171 and 173: value || ''.
OrEmpty(v) == IF v \in {Null, ""} THEN "" ELSE v

\* part_000 169-173 and 179-186 / part_003 129-133 and 139-146.
AppArgs(rec) ==
  <<getSelector,
    EncodeString(rec.id),
    EncodeAddress(rec.merchantWallet),
    EncodeString(OrEmpty(rec.merchantName)),
    EncodeUint64(rec.amount),
    EncodeString(OrEmpty(rec.note))>>

NoGroup == [digest |-> <<>>]

\* The transfer paid to the address derived from the asset's id.
AssetTransferTxn_ToAsset(sender, rec, sp) ==
  [type |-> "axfer", sender |-> sender, receiver |-> getApplicationAddress(rec.assetId),
   assetIndex |-> rec.assetId, amount |-> rec.amount, suggestedParams |-> sp,
   group |-> NoGroup]

\* part_000 147-153 / part_003 105-111.
AssetTransferTxn(sender, rec, sp) ==
  [type |-> "axfer", sender |-> sender, receiver |-> getApplicationAddress(rec.appId),
   assetIndex |-> rec.assetId, amount |-> rec.amount, suggestedParams |-> sp,
   group |-> NoGroup]

\* part_000 175-190 / part_003 135-150.
AppCallTxn(sender, rec, sp) ==
  [type |-> "appl", sender |-> sender, appIndex |-> rec.appId, onComplete |-> "NoOpOC",
   appArgs |-> AppArgs(rec), foreignAssets |-> <<rec.assetId>>,
   accounts |-> <<rec.merchantWallet>>,
   suggestedParams |-> [sp EXCEPT !.fee = AppCallFee, !.flatFee = TRUE],
   group |-> NoGroup]

\* algosdk.computeGroupID: a digest of the transactions in their order.
GroupId(txns) == [digest |-> txns]

\* Each transaction grouped by itself.
assignGroupID_Each(txns) ==
  [k \in DOMAIN txns |-> [txns[k] EXCEPT !.group = GroupId(<<txns[k]>>)]]

\* algosdk.assignGroupID(txns), part_000 193 / part_003 153.
assignGroupID(txns) ==
  [k \in DOMAIN txns |-> [txns[k] EXCEPT !.group = GroupId(txns)]]

\* part_000 141-196 / part_003 99-155: the group handed to the signer.
BuildGroup(sender, rec, sp) ==
  assignGroupID(<<AssetTransferTxn(sender, rec, sp), AppCallTxn(sender, rec, sp)>>)

\* ------------------------------------------------------------------ timers
NoTimer == 0

\* A live timer: kind "countdown" (the page's interval), "reload" (the page's
\* timeout) or "refresh" (the auto-refresh interval of a tool view); due is
\* the instant a page timer fires next.
Timer(id, kind, due) == [id |-> id, kind |-> kind, due |-> due]

NoTick == [kind |-> "none", at |-> 0, live |-> TRUE, status |-> Null, expired |-> FALSE]

\* The display value one second too eager: the last second shows as expired.
TimeDisplay_Early(diff) ==
  IF diff < 1000
    THEN "Expired"
    ELSE ToString(diff \div 60000) \o "m " \o ToString((diff % 60000) \div 1000) \o "s"

\* part_000 73-82: the display value for diff = expiresAt - Date.now().
TimeDisplay(diff) ==
  IF diff <= 0
    THEN "Expired"
    ELSE ToString(diff \div 60000) \o "m " \o ToString((diff % 60000) \div 1000) \o "s"

\* part_000 74: the call schedules a reload.
IsExpired(diff) == TimeDisplay(diff) = "Expired"

\* expiresAt values relative to the mount: passed, on a tick, between two
\* ticks, on no tick's half-second, more than a minute away.
ExpiryChoices == {0, 1000, 1200, 2500, 62000}
FarExpiry == 62000

\* part_000 85-90: what onMounted leaves of the countdown, for a checkout
\* with the given status and expiry.
MountedCountdown(status, expiry) ==
  IF status # "pending"
    THEN [timeRemaining |-> "", timers |-> {}, nextTimer |-> 1, lastTick |-> NoTick]
    ELSE [timeRemaining |-> TimeDisplay(expiry),
          timers |-> {Timer(1, "countdown", TickPeriod)}
                       \cup (IF IsExpired(expiry) THEN {Timer(2, "reload", ReloadDelay)}
                                                  ELSE {}),
          nextTimer |-> (IF IsExpired(expiry) THEN 3 ELSE 2),
          lastTick |-> [kind |-> "mount", at |-> 0, live |-> TRUE, status |-> status,
                        expired |-> IsExpired(expiry)]]

\* ------------------------------------------------------------------- Init
\* useAlgorand.ts 29-40: the singletons after module evaluation.
InitTool ==
  /\ app = "tool"
  /\ storedNetwork \in PersistedValues
  /\ networkId = (IF storedNetwork = Absent THEN "testnet" ELSE storedNetwork)
  /\ algodClient = createAlgodClient(networkId)
  /\ connectedAccount = NoAccount
  /\ isInitialized = FALSE
  /\ initPc = "idle"
  /\ checkout \in Statuses \cup {NoCheckout}
  /\ server = (IF checkout = NoCheckout THEN "pending" ELSE checkout)
  /\ error = (IF checkout = NoCheckout THEN "Checkout not found" ELSE Null)
  /\ view = "payment"
  /\ expiresAt = FarExpiry
  /\ timeRemaining = ""
  /\ autoRefresh = FALSE
  /\ refreshInterval = NoTimer
  /\ timers = {}
  /\ nextTimer = 1
  /\ lastTick = NoTick

\* part_000 34-47 and onMounted 85-102: the page after mounting; onMounted has
\* issued reconnectSession().
InitPage ==
  /\ app = "page"
  /\ storedNetwork = Absent
  /\ networkId = InjectedNetwork
  /\ algodClient = InjectedClient
  /\ connectedAccount = NoAccount
  /\ isInitialized = FALSE
  /\ initPc = "restore"
  /\ checkout \in Statuses
  /\ server = checkout
  /\ error = Null
  /\ view = "payment"
  /\ expiresAt \in ExpiryChoices
  /\ timeRemaining = MountedCountdown(checkout, expiresAt).timeRemaining
  /\ autoRefresh = FALSE
  /\ refreshInterval = NoTimer
  /\ timers = MountedCountdown(checkout, expiresAt).timers
  /\ nextTimer = MountedCountdown(checkout, expiresAt).nextTimer
  /\ lastTick = MountedCountdown(checkout, expiresAt).lastTick

\* What every run starts with.
InitCommon ==
  /\ wallet \in {NoAccount, "ADDR1"}
  /\ listening = FALSE
  /\ conn = <<>>
  /\ loading = FALSE
  /\ success = NoTx
  /\ paying = FALSE
  /\ att = <<>>
  /\ fetches = <<>>
  /\ lastCall = NoCall
  /\ mounted = TRUE
  /\ unloaded = FALSE
  /\ now = 0

\* part_003 1558-1563 and 1630-1635, part_002 24-38 and 140-143: the
\* statistics view and the exchange-rate view of the dev tool after mounting.
InitToolView ==
  /\ app = "tool"
  /\ storedNetwork = Absent
  /\ networkId = "testnet"
  /\ algodClient = createAlgodClient(networkId)
  /\ connectedAccount = NoAccount
  /\ isInitialized = FALSE
  /\ initPc = "idle"
  /\ checkout = NoCheckout
  /\ server = "pending"
  /\ error = Null
  /\ view \in {"stats", "rates"}
  /\ expiresAt = FarExpiry
  /\ timeRemaining = ""
  /\ autoRefresh = (view = "stats")
  /\ refreshInterval = (IF view = "stats" THEN 1 ELSE NoTimer)
  /\ timers = (IF view = "stats" THEN {Timer(1, "refresh", 0)} ELSE {})
  /\ nextTimer = (IF view = "stats" THEN 2 ELSE 1)
  /\ lastTick = NoTick

\* The payment views; the page's countdown is far from its expiry.
Init ==
  /\ (InitTool \/ InitPage)
  /\ expiresAt = FarExpiry
  /\ InitCommon
  /\ record = DefaultRecord
  /\ suggestedParams = DefaultParams

\* The payment views with a pending checkout, for every checkout record and
\* every answer of the node.
InitBuild ==
  /\ (InitTool \/ InitPage)
  /\ storedNetwork = Absent
  /\ checkout = "pending"
  /\ expiresAt = FarExpiry
  /\ InitCommon
  /\ record \in Records
  /\ suggestedParams \in ParamsChoices

\* ------------------------------------------------------- thrown values
\* What a rejected await delivers to a catch block: an Error with a message,
\* or a value that is no Error and carries no message.
Err(m) == [isError |-> TRUE, message |-> m]
NonError == [isError |-> FALSE, message |-> ""]

ConnectThrown == {Err("Connect cancelled"), Err("Failed to fetch"), NonError}

\* ------------------------------------------------------------ wallet session
\* useAlgorand.ts 52-55: init() up to its await.
init ==
  /\ app = "tool"
  /\ Loaded
  /\ ~isInitialized
  /\ isInitialized' = TRUE
  /\ initPc' = "restore"
  /\ Quiet
  /\ UNCHANGED <<app, timerVars, orderVars, netVars, walletVars, conn, viewVars, server, att, fetches>>

\* useAlgorand.ts 57-64 and part_000 93-101: reconnectSession() answered;
\* an empty answer and a rejection both leave the session as it is.
init_resolve ==
  /\ initPc = "restore"
  /\ initPc' = "done"
  /\ IF wallet # NoAccount
       THEN connectedAccount' = wallet /\ listening' = TRUE
       ELSE UNCHANGED <<connectedAccount, listening>>
  /\ Quiet
  /\ UNCHANGED <<app, timerVars, orderVars, netVars, wallet, isInitialized, conn, viewVars, server, att, fetches>>

NewConn(via, pc) ==
  [via |-> via, had |-> connectedAccount, pc |-> pc,
   restores |-> (IF pc = "restore" THEN 1 ELSE 0),
   prompts |-> (IF pc = "prompt" THEN 1 ELSE 0),
   thrown |-> Null]

\* WalletConnect.vue 13: the connect button exists only while not connected.
ConnectOffered == ~isConnected

\* connect() without lines 69-72.
connect_NoCheck(via) ==
  /\ app = "tool"
  /\ Loaded
  /\ Len(conn) < MaxConnects
  /\ via = "button" => ConnectOffered
  /\ conn' = Append(conn, NewConn(via, "restore"))
  /\ lastCall' = Call("connect", Null)
  /\ UNCHANGED <<app, timerVars, orderVars, netVars, walletVars, isInitialized, initPc, viewVars, server,
                 att, fetches>>

\* useAlgorand.ts 67-76: connect() up to its first await.
connect(via) ==
  /\ app = "tool"
  /\ Loaded
  /\ Len(conn) < MaxConnects
  /\ via = "button" => ConnectOffered
  /\ conn' = Append(conn, NewConn(via, IF connectedAccount # NoAccount
                                         THEN "returned" ELSE "restore"))
  /\ lastCall' = Call("connect", Null)
  /\ UNCHANGED <<app, timerVars, orderVars, netVars, walletVars, isInitialized, initPc, viewVars, server,
                 att, fetches>>

\* useAlgorand.ts 76-86: reconnectSession() answered inside connect().
connect_restore(i) ==
  /\ app = "tool"
  /\ conn[i].pc = "restore"
  /\ IF wallet # NoAccount
       THEN /\ connectedAccount' = wallet
            /\ listening' = TRUE
            /\ conn' = SetAt(conn, i, [conn[i] EXCEPT !.pc = "done"])
       ELSE /\ UNCHANGED <<connectedAccount, listening>>
            /\ conn' = SetAt(conn, i, [conn[i] EXCEPT !.pc = "prompt", !.prompts = @ + 1])
  /\ Quiet
  /\ UNCHANGED <<app, timerVars, orderVars, netVars, wallet, isInitialized, initPc, viewVars, server, att, fetches>>

\* useAlgorand.ts 86-88: peraWallet.connect() answered with accounts
\* (a = NoAccount: an empty list).
connect_prompt(i, a) ==
  /\ app = "tool"
  /\ conn[i].pc = "prompt"
  /\ wallet' = a
  /\ connectedAccount' = a
  /\ listening' = (a # NoAccount)
  /\ conn' = SetAt(conn, i, [conn[i] EXCEPT !.pc = "done"])
  /\ Quiet
  /\ UNCHANGED <<app, timerVars, orderVars, netVars, isInitialized, initPc, viewVars, server, att, fetches>>

\* useAlgorand.ts 89-92: peraWallet.connect() rejected; the error is logged
\* and thrown again.
connect_fail(i, e) ==
  /\ app = "tool"
  /\ conn[i].pc = "prompt"
  /\ conn' = SetAt(conn, i, [conn[i] EXCEPT !.pc = "threw", !.thrown = e.message])
  /\ Quiet
  /\ UNCHANGED <<app, timerVars, orderVars, netVars, walletVars, isInitialized, initPc, viewVars, server,
                 att, fetches>>

\* part_000 259 and 325: the page's connect buttons.
PageConnectOffered == ~isConnected /\ ~loading

\* part_000 108-112: the page's connect() up to its await.
pageConnect(via) ==
  /\ app = "page"
  /\ Len(conn) < MaxConnects
  /\ via = "button" => PageConnectOffered
  /\ loading' = TRUE
  /\ error' = Null
  /\ conn' = Append(conn, NewConn(via, "prompt"))
  /\ lastCall' = Call("connect", Null)
  /\ UNCHANGED <<app, timerVars, orderVars, netVars, walletVars, isInitialized, initPc, checkout, success,
                 paying, server, att, fetches>>

\* part_000 112-116 and 122-124.
pageConnect_resolve(i, a) ==
  /\ app = "page"
  /\ conn[i].pc = "prompt"
  /\ wallet' = a
  /\ IF a # NoAccount
       THEN connectedAccount' = a /\ listening' = TRUE
       ELSE UNCHANGED <<connectedAccount, listening>>
  /\ loading' = FALSE
  /\ conn' = SetAt(conn, i, [conn[i] EXCEPT !.pc = "done"])
  /\ Quiet
  /\ UNCHANGED <<app, timerVars, orderVars, netVars, isInitialized, initPc, checkout, error, success, paying,
                 server, att, fetches>>

\* part_000 117-124.
pageConnect_fail(i, e) ==
  /\ app = "page"
  /\ conn[i].pc = "prompt"
  /\ IF e.message # "Connect cancelled"
       THEN error' = (IF e.message # "" THEN e.message ELSE "Failed to connect wallet")
       ELSE UNCHANGED error
  /\ loading' = FALSE
  /\ conn' = SetAt(conn, i, [conn[i] EXCEPT !.pc = "failed", !.thrown = e.message])
  /\ Quiet
  /\ UNCHANGED <<app, timerVars, orderVars, netVars, walletVars, isInitialized, initPc, checkout, success,
                 paying, server, att, fetches>>

\* useAlgorand.ts 99-102 and part_000 127-130, as a state change.
DoDisconnect ==
  /\ wallet' = NoAccount
  /\ listening' = FALSE
  /\ connectedAccount' = NoAccount

\* disconnect() without its second statement: the wallet is told, the
\* account is kept.
disconnect_OnlyWallet ==
  /\ Loaded
  /\ wallet' = NoAccount
  /\ listening' = FALSE
  /\ UNCHANGED connectedAccount
  /\ lastCall' = Call("disconnect", Null)
  /\ UNCHANGED <<app, timerVars, orderVars, netVars, isInitialized, initPc, conn, viewVars, server, att, fetches>>

\* useAlgorand.ts 99-102 / part_000 127-130: disconnect().
disconnect ==
  /\ Loaded
  /\ DoDisconnect
  /\ lastCall' = Call("disconnect", Null)
  /\ UNCHANGED <<app, timerVars, orderVars, netVars, isInitialized, initPc, conn, viewVars, server, att, fetches>>

\* useAlgorand.ts 95-97 / part_000 104-106: the wallet's 'disconnect' event.
handleDisconnect ==
  /\ listening
  /\ wallet' = NoAccount
  /\ listening' = FALSE
  /\ connectedAccount' = NoAccount
  /\ lastCall' = Call("handleDisconnect", Null)
  /\ UNCHANGED <<app, timerVars, orderVars, netVars, isInitialized, initPc, conn, viewVars, server, att, fetches>>

\* switchNetwork() without lines 114-117.
switchNetwork_KeepsSession(network) ==
  /\ app = "tool"
  /\ Loaded
  /\ IF network = networkId
       THEN UNCHANGED netVars
       ELSE /\ networkId' = network
            /\ storedNetwork' = network
            /\ algodClient' = createAlgodClient(network)
  /\ lastCall' = Call("switchNetwork", network)
  /\ UNCHANGED <<app, timerVars, orderVars, walletVars, isInitialized, initPc, conn, viewVars, server, att,
                 fetches>>

\* switchNetwork() without line 112.
switchNetwork_KeepsClient(network) ==
  /\ app = "tool"
  /\ Loaded
  /\ IF network = networkId
       THEN UNCHANGED <<netVars, walletVars>>
       ELSE /\ networkId' = network
            /\ storedNetwork' = network
            /\ UNCHANGED algodClient
            /\ IF connectedAccount # NoAccount
                 THEN DoDisconnect
                 ELSE UNCHANGED walletVars
  /\ lastCall' = Call("switchNetwork", network)
  /\ UNCHANGED <<app, timerVars, orderVars, isInitialized, initPc, conn, viewVars, server, att, fetches>>

\* useAlgorand.ts 104-120: switchNetwork(network).
switchNetwork(network) ==
  /\ app = "tool"
  /\ Loaded
  /\ IF network = networkId
       THEN UNCHANGED <<netVars, walletVars>>
       ELSE /\ networkId' = network
            /\ storedNetwork' = network
            /\ algodClient' = createAlgodClient(network)
            /\ IF connectedAccount # NoAccount
                 THEN DoDisconnect
                 ELSE UNCHANGED walletVars
  /\ lastCall' = Call("switchNetwork", network)
  /\ UNCHANGED <<app, timerVars, orderVars, isInitialized, initPc, conn, viewVars, server, att, fetches>>

\* --------------------------------------------------------------- pay attempts
\* An invocation of pay(), payCheckout() or signAndSendTransactions():
\*   kind   "pay" (pay / payCheckout) | "submit" (signAndSendTransactions called alone)
\*   via    "button" | "call"
\*   conn   a session existed at the invocation
\*   reent  another pay attempt of the view was in flight at the invocation
\*   pc     "returned" | "params" | "sign" | "send" | "wait" | "confirmed"
\*          | "failed" | "threw" | "resolved"
\*   steps  the protocol steps the invocation has started, in order
\*   rounds ledger rounds the confirmation wait has seen pass
\*   pnet, snet, wnet  the node client asked for parameters, submitted to, polled
\*   err    the message the invocation surfaced (error value or exception)
\*   group  the transactions handed to the wallet for signing
InFlightPcs == {"params", "sign", "send", "wait"}

InFlight == {i \in 1..Len(att) : att[i].kind = "pay" /\ att[i].pc \in InFlightPcs}

NewAttempt(kind, via, pc, steps) ==
  [kind |-> kind, via |-> via, conn |-> (connectedAccount # NoAccount),
   reent |-> (InFlight # {}), pc |-> pc, steps |-> steps, rounds |-> 0,
   pnet |-> (IF pc = "params" THEN algodClient ELSE NoClient),
   snet |-> NoClient, wnet |-> NoClient, err |-> Null, group |-> <<>>]

ParamsThrown == {Err("Network request error")}
BuildThrown == Err("Not an address")
SignThrown == {Err("Transaction signing is cancelled"), NonError}
SendThrown == {Err("overspend")}
WaitThrown == {Err("Transaction Rejected")}
TimeoutThrown == Err("Transaction not confirmed after 4 rounds")
NotConnectedThrown == Err("Wallet not connected")
NoError == [isError |-> FALSE, message |-> Null]

\* A build that never throws.
BuildError_None(sender, rec) == NoError

\* part_000 141-190 / part_003 99-150: what building the two transactions
\* throws, if anything: BigInt() of an absent program id (141), a transfer
\* without a sender (147), the encoding of a malformed address (170).
BuildError(sender, rec) ==
  IF rec.appId = NoAppId THEN Err("Cannot convert undefined to a BigInt")
  ELSE IF sender = NoAccount THEN BuildThrown
  ELSE IF ~IsAddress(rec.merchantWallet) THEN Err("address seems to be malformed")
  ELSE NoError

ThrownAt(pc) ==
  CASE pc = "params" -> ParamsThrown
    [] pc = "sign" -> SignThrown
    [] pc = "send" -> SendThrown
    [] pc = "wait" -> WaitThrown
    [] OTHER -> {}

\* The wait giving up one round late.
WaitExhausted_OffByOne(rounds) == rounds > WaitRounds

\* algosdk.waitForConfirmation(client, txId, waitRounds): one more round has
\* passed without inclusion; TRUE when the wait gives up.
WaitExhausted(rounds) == rounds >= WaitRounds

\* ---- the payment page: pay()
\* The button without :disabled="paying".
PayOffered_IgnoresPaying == checkout = "pending" /\ isConnected

\* part_000 324-331: the Pay Now button.
PayOffered == checkout = "pending" /\ isConnected /\ ~paying

\* part_000 209: the message shown for a caught value.
PageMessage(e) == IF e.message # "" THEN e.message ELSE "Payment failed"

\* pay() without its finally block.
PageCatch_NoFinally(i, e) ==
  /\ error' = PageMessage(e)
  /\ att' = SetAt(att, i, [att[i] EXCEPT !.pc = "failed", !.err = PageMessage(e)])
  /\ UNCHANGED <<checkout, loading, success, paying, fetches>>

\* part_000 206-212: catch and finally of pay().
PageCatch(i, e) ==
  /\ error' = PageMessage(e)
  /\ paying' = FALSE
  /\ att' = SetAt(att, i, [att[i] EXCEPT !.pc = "failed", !.err = PageMessage(e)])
  /\ UNCHANGED <<checkout, loading, success, fetches>>

\* part_000 132-140: pay() up to its first await.
pay(via) ==
  /\ app = "page"
  /\ Len(att) < MaxAttempts
  /\ via = "button" => PayOffered
  /\ IF connectedAccount = NoAccount
       THEN /\ att' = Append(att, NewAttempt("pay", via, "returned", <<>>))
            /\ UNCHANGED <<paying, error, success>>
       ELSE /\ paying' = TRUE
            /\ error' = Null
            /\ success' = NoTx
            /\ att' = Append(att, NewAttempt("pay", via, "params", <<"fetch">>))
  /\ Quiet
  /\ UNCHANGED <<app, timerVars, orderVars, netVars, walletVars, isInitialized, initPc, conn, checkout, loading,
                 server, fetches>>

\* part_000 140-197: the parameters arrived; both transactions are built, the
\* group id is assigned and the wallet is asked to sign.
pay_build(i) ==
  /\ app = "page"
  /\ att[i].pc = "params"
  /\ IF BuildError(connectedAccount, record) # NoError
       THEN PageCatch(i, BuildError(connectedAccount, record))
       ELSE /\ att' = SetAt(att, i, [att[i] EXCEPT !.pc = "sign",
                                       !.steps = @ \o <<"build", "group", "sign">>,
                                       !.group = BuildGroup(connectedAccount, record,
                                                            suggestedParams)])
            /\ UNCHANGED <<viewVars, fetches>>
  /\ Quiet
  /\ UNCHANGED <<app, timerVars, orderVars, netVars, walletVars, isInitialized, initPc, conn, server>>

\* part_000 197-200: the signatures arrived; the group is submitted.
pay_sign(i) ==
  /\ app = "page"
  /\ att[i].pc = "sign"
  /\ att' = SetAt(att, i, [att[i] EXCEPT !.pc = "send", !.steps = @ \o <<"submit">>,
                             !.snet = algodClient])
  /\ Quiet
  /\ UNCHANGED <<app, timerVars, orderVars, netVars, walletVars, isInitialized, initPc, conn, viewVars, server,
                 fetches>>

\* part_000 200-202: the node accepted the group; the confirmation wait starts.
pay_send(i) ==
  /\ app = "page"
  /\ att[i].pc = "send"
  /\ att' = SetAt(att, i, [att[i] EXCEPT !.pc = "wait", !.steps = @ \o <<"confirm">>,
                             !.wnet = algodClient])
  /\ Quiet
  /\ UNCHANGED <<app, timerVars, orderVars, netVars, walletVars, isInitialized, initPc, conn, viewVars, server,
                 fetches>>

\* part_000 202: a round passed without inclusion.
pay_round(i) ==
  /\ app = "page"
  /\ att[i].pc = "wait"
  /\ IF WaitExhausted(att[i].rounds + 1)
       THEN /\ error' = PageMessage(TimeoutThrown)
            /\ paying' = FALSE
            /\ att' = SetAt(att, i, [att[i] EXCEPT !.pc = "failed", !.rounds = @ + 1,
                                       !.err = PageMessage(TimeoutThrown)])
            /\ UNCHANGED <<checkout, loading, success, fetches>>
       ELSE /\ att' = SetAt(att, i, [att[i] EXCEPT !.rounds = @ + 1])
            /\ UNCHANGED <<viewVars, fetches>>
  /\ Quiet
  /\ UNCHANGED <<app, timerVars, orderVars, netVars, walletVars, isInitialized, initPc, conn, server>>

\* part_000 204-205: the status the page gives its checkout on confirmation.
PageConfirmedStatus == "paid"

\* part_000 202-205 and 210-212: the group was included in a round.
pay_confirmed(i) ==
  /\ app = "page"
  /\ att[i].pc = "wait"
  /\ success' = i
  /\ checkout' = PageConfirmedStatus
  /\ paying' = FALSE
  /\ att' = SetAt(att, i, [att[i] EXCEPT !.pc = "confirmed"])
  /\ Quiet
  /\ UNCHANGED <<app, timerVars, orderVars, netVars, walletVars, isInitialized, initPc, conn, loading, error,
                 server, fetches>>

\* part_000 206-212: an awaited step of pay() rejected.
pay_fail(i, e) ==
  /\ app = "page"
  /\ e \in ThrownAt(att[i].pc)
  /\ PageCatch(i, e)
  /\ Quiet
  /\ UNCHANGED <<app, timerVars, orderVars, netVars, walletVars, isInitialized, initPc, conn, server>>

\* ---- the dev tool: PaymentForm payCheckout() over useAlgorand
\* part_003 226-230: the pay button.
PayCheckoutOffered == checkout = "pending" /\ isConnected /\ ~paying

\* part_003 165: the message shown for a caught value.
FormMessage(e) == IF e.isError THEN e.message ELSE "Payment failed"

\* The catch of payCheckout() without its finally.
FormCatch_NoFinally(i, e) ==
  /\ error' = FormMessage(e)
  /\ att' = SetAt(att, i, [att[i] EXCEPT !.pc = "failed", !.err = FormMessage(e)])
  /\ UNCHANGED <<checkout, loading, success, paying, fetches>>

\* part_003 163-168: catch and finally of payCheckout().
FormCatch(i, e) ==
  /\ error' = FormMessage(e)
  /\ paying' = FALSE
  /\ att' = SetAt(att, i, [att[i] EXCEPT !.pc = "failed", !.err = FormMessage(e)])
  /\ UNCHANGED <<checkout, loading, success, fetches>>

\* A rejection of signAndSendTransactions(): caught by payCheckout(), or
\* thrown to the caller that invoked signAndSendTransactions() itself.
Reject(i, e) ==
  IF att[i].kind = "pay"
    THEN FormCatch(i, e)
    ELSE /\ att' = SetAt(att, i, [att[i] EXCEPT !.pc = "threw", !.err = e.message])
         /\ UNCHANGED <<viewVars, fetches>>

\* part_003 90-98: payCheckout() up to its first await.
payCheckout(via) ==
  /\ app = "tool"
  /\ Loaded
  /\ Len(att) < MaxAttempts
  /\ via = "button" => PayCheckoutOffered
  /\ IF checkout = NoCheckout \/ connectedAccount = NoAccount
       THEN /\ att' = Append(att, NewAttempt("pay", via, "returned", <<>>))
            /\ UNCHANGED <<paying, error, success>>
       ELSE /\ paying' = TRUE
            /\ error' = Null
            /\ success' = NoTx
            /\ att' = Append(att, NewAttempt("pay", via, "params", <<"fetch">>))
  /\ Quiet
  /\ UNCHANGED <<app, timerVars, orderVars, netVars, walletVars, isInitialized, initPc, conn, checkout, loading,
                 server, fetches>>

\* signAndSendTransactions() without its session check.
SessionCheck_Always == TRUE

\* useAlgorand.ts 123: the session check of signAndSendTransactions().
SessionCheck == connectedAccount # NoAccount

\* part_003 98-155 and useAlgorand.ts 122-126: the parameters arrived; both
\* transactions are built, the group id is assigned and
\* signAndSendTransactions() asks the wallet to sign.
payCheckout_build(i) ==
  /\ app = "tool"
  /\ att[i].kind = "pay"
  /\ att[i].pc = "params"
  /\ IF BuildError(connectedAccount, record) # NoError
       THEN FormCatch(i, BuildError(connectedAccount, record))
       ELSE IF ~SessionCheck
         THEN FormCatch(i, NotConnectedThrown)
         ELSE /\ att' = SetAt(att, i, [att[i] EXCEPT !.pc = "sign",
                                         !.steps = @ \o <<"build", "group", "sign">>,
                                         !.group = BuildGroup(connectedAccount, record,
                                                              suggestedParams)])
              /\ UNCHANGED <<viewVars, fetches>>
  /\ Quiet
  /\ UNCHANGED <<app, timerVars, orderVars, netVars, walletVars, isInitialized, initPc, conn, server>>

\* part_003 98 and 163-168: getTransactionParams() rejected.
payCheckout_fail(i, e) ==
  /\ app = "tool"
  /\ att[i].kind = "pay"
  /\ att[i].pc = "params"
  /\ e \in ParamsThrown
  /\ FormCatch(i, e)
  /\ Quiet
  /\ UNCHANGED <<app, timerVars, orderVars, netVars, walletVars, isInitialized, initPc, conn, server>>

\* useAlgorand.ts 122-126: signAndSendTransactions(txns) called by itself,
\* up to its first await.
signAndSendTransactions ==
  /\ app = "tool"
  /\ Loaded
  /\ Len(att) < MaxAttempts
  /\ IF ~SessionCheck
       THEN att' = Append(att, [NewAttempt("submit", "call", "threw", <<>>)
                                  EXCEPT !.err = NotConnectedThrown.message])
       ELSE att' = Append(att, NewAttempt("submit", "call", "sign", <<"sign">>))
  /\ Quiet
  /\ UNCHANGED <<app, timerVars, orderVars, netVars, walletVars, isInitialized, initPc, conn, viewVars, server,
                 fetches>>

\* sendRawTransaction() not awaited: the confirmation wait starts at once.
sas_sign_NoAwait(i) ==
  /\ app = "tool"
  /\ att[i].pc = "sign"
  /\ att' = SetAt(att, i, [att[i] EXCEPT !.pc = "wait", !.steps = @ \o <<"confirm">>,
                             !.snet = algodClient, !.wnet = algodClient])
  /\ Quiet
  /\ UNCHANGED <<app, timerVars, orderVars, netVars, walletVars, isInitialized, initPc, conn, viewVars, server,
                 fetches>>

\* useAlgorand.ts 126-127: the signatures arrived; the group goes to the
\* node client that is active now.
sas_sign(i) ==
  /\ app = "tool"
  /\ att[i].pc = "sign"
  /\ att' = SetAt(att, i, [att[i] EXCEPT !.pc = "send", !.steps = @ \o <<"submit">>,
                             !.snet = algodClient])
  /\ Quiet
  /\ UNCHANGED <<app, timerVars, orderVars, netVars, walletVars, isInitialized, initPc, conn, viewVars, server,
                 fetches>>

\* useAlgorand.ts 127-129: the node accepted the group; the confirmation wait
\* starts on the node client that is active now.
sas_send(i) ==
  /\ app = "tool"
  /\ att[i].pc = "send"
  /\ att' = SetAt(att, i, [att[i] EXCEPT !.pc = "wait", !.steps = @ \o <<"confirm">>,
                             !.wnet = algodClient])
  /\ Quiet
  /\ UNCHANGED <<app, timerVars, orderVars, netVars, walletVars, isInitialized, initPc, conn, viewVars, server,
                 fetches>>

\* useAlgorand.ts 129: a round passed without inclusion.
sas_round(i) ==
  /\ app = "tool"
  /\ att[i].pc = "wait"
  /\ IF WaitExhausted(att[i].rounds + 1)
       THEN \E a \in {[att[i] EXCEPT !.rounds = @ + 1]} :
              IF a.kind = "pay"
                THEN /\ error' = FormMessage(TimeoutThrown)
                     /\ paying' = FALSE
                     /\ att' = SetAt(att, i, [a EXCEPT !.pc = "failed",
                                                !.err = FormMessage(TimeoutThrown)])
                     /\ UNCHANGED <<checkout, loading, success, fetches>>
                ELSE /\ att' = SetAt(att, i, [a EXCEPT !.pc = "threw",
                                                !.err = TimeoutThrown.message])
                     /\ UNCHANGED <<viewVars, fetches>>
       ELSE /\ att' = SetAt(att, i, [att[i] EXCEPT !.rounds = @ + 1])
            /\ UNCHANGED <<viewVars, fetches>>
  /\ Quiet
  /\ UNCHANGED <<app, timerVars, orderVars, netVars, walletVars, isInitialized, initPc, conn, server>>

\* part_003 155-162: what payCheckout() does to the view's checkout status
\* when signAndSendTransactions() returned a transaction id: nothing; the
\* status waits for the re-fetch scheduled 2000 ms later.
FormConfirmedStatus == checkout

\* useAlgorand.ts 129-130, part_003 155-162 and 166-168: the group was
\* included in a round.
sas_confirmed(i) ==
  /\ app = "tool"
  /\ att[i].pc = "wait"
  /\ IF att[i].kind = "pay"
       THEN /\ success' = i
            /\ checkout' = FormConfirmedStatus
            /\ fetches' = Append(fetches, [stage |-> "req", status |-> Null])
            /\ paying' = FALSE
            /\ att' = SetAt(att, i, [att[i] EXCEPT !.pc = "confirmed"])
            /\ UNCHANGED <<loading, error>>
       ELSE /\ att' = SetAt(att, i, [att[i] EXCEPT !.pc = "resolved"])
            /\ UNCHANGED <<viewVars, fetches>>
  /\ Quiet
  /\ UNCHANGED <<app, timerVars, orderVars, netVars, walletVars, isInitialized, initPc, conn, server>>

\* useAlgorand.ts 126-129: an awaited step of signAndSendTransactions()
\* rejected.
sas_fail(i, e) ==
  /\ app = "tool"
  /\ att[i].pc \in {"sign", "send", "wait"}
  /\ e \in ThrownAt(att[i].pc)
  /\ Reject(i, e)
  /\ Quiet
  /\ UNCHANGED <<app, timerVars, orderVars, netVars, walletVars, isInitialized, initPc, conn, server>>

\* ---- the checkout-record collaborator
\* The record's status only moves forward there (spec 4.4).
ServerMoves ==
  {<<"pending", "paid">>, <<"paid", "notified">>, <<"pending", "expired">>,
   <<"pending", "failed">>, <<"paid", "failed">>}

server_advance(s) ==
  /\ app = "tool"
  /\ <<server, s>> \in ServerMoves
  /\ server' = s
  /\ Quiet
  /\ UNCHANGED <<app, timerVars, orderVars, netVars, walletVars, isInitialized, initPc, conn, viewVars, att,
                 fetches>>

Remove(s, k) == [j \in 1..(Len(s) - 1) |-> IF j < k THEN s[j] ELSE s[j + 1]]

\* part_003 159-160: the timer fired, the request reached the collaborator
\* and was answered with the record as it is now.
refetch_serve(k) ==
  /\ fetches[k].stage = "req"
  /\ fetches' = SetAt(fetches, k, [stage |-> "resp", status |-> server])
  /\ Quiet
  /\ UNCHANGED <<app, timerVars, orderVars, netVars, walletVars, isInitialized, initPc, conn, viewVars, server,
                 att>>

\* part_003 161: the response arrived and was ok.
refetch_deliver(k) ==
  /\ fetches[k].stage = "resp"
  /\ checkout' = fetches[k].status
  /\ fetches' = Remove(fetches, k)
  /\ Quiet
  /\ UNCHANGED <<app, timerVars, orderVars, netVars, walletVars, isInitialized, initPc, conn, loading, error,
                 success, paying, server, att>>

\* part_003 160-161: the request failed or the response was not ok.
refetch_fail(k) ==
  /\ fetches[k].stage = "req"
  /\ fetches' = Remove(fetches, k)
  /\ Quiet
  /\ UNCHANGED <<app, timerVars, orderVars, netVars, walletVars, isInitialized, initPc, conn, viewVars, server,
                 att>>

\* ------------------------------------------------------- timers and views
Tick(kind) ==
  [kind |-> kind, at |-> now, live |-> mounted,
   status |-> (IF kind = "refresh" THEN Null ELSE checkout), expired |-> FALSE]

Rearmed(t) == Timer(t.id, t.kind, t.due + TickPeriod)

\* Time passes; a timer that is due fires before the clock moves on.
clock_advance ==
  /\ app = "page"
  /\ ~unloaded
  /\ now < MaxTime * ClockStep
  /\ \A t \in timers : t.due > now
  /\ now' = now + ClockStep
  /\ Quiet
  /\ UNCHANGED <<view, mounted, unloaded, expiresAt, timeRemaining, autoRefresh,
                 refreshInterval, timers, nextTimer, lastTick>>
  /\ UNCHANGED <<app, orderVars, netVars, walletVars, isInitialized, initPc, conn, viewVars,
                 server, att, fetches>>

\* part_000 72-83 and 89: the countdown interval fires.
updateTimeRemaining(t) ==
  /\ app = "page"
  /\ ~unloaded
  /\ t.kind = "countdown"
  /\ t.due = now
  /\ timeRemaining' = TimeDisplay(expiresAt - now)
  /\ IF IsExpired(expiresAt - now)
       THEN /\ nextTimer <= MaxTimers
            /\ timers' = (timers \ {t})
                            \cup {Rearmed(t), Timer(nextTimer, "reload", now + ReloadDelay)}
            /\ nextTimer' = nextTimer + 1
       ELSE /\ timers' = (timers \ {t}) \cup {Rearmed(t)}
            /\ UNCHANGED nextTimer
  /\ lastTick' = [Tick("countdown") EXCEPT !.expired = IsExpired(expiresAt - now)]
  /\ Quiet
  /\ UNCHANGED <<view, mounted, unloaded, now, expiresAt, autoRefresh, refreshInterval>>
  /\ UNCHANGED <<app, orderVars, netVars, walletVars, isInitialized, initPc, conn, viewVars,
                 server, att, fetches>>

\* part_000 77: a reload timeout fires; the document and its timers go.
reload(t) ==
  /\ app = "page"
  /\ ~unloaded
  /\ t.kind = "reload"
  /\ t.due = now
  /\ unloaded' = TRUE
  /\ mounted' = FALSE
  /\ timers' = {}
  /\ lastTick' = Tick("reload")
  /\ Quiet
  /\ UNCHANGED <<view, now, expiresAt, timeRemaining, autoRefresh, refreshInterval,
                 nextTimer>>
  /\ UNCHANGED <<app, orderVars, netVars, walletVars, isInitialized, initPc, conn, viewVars,
                 server, att, fetches>>

Cleared(id) == {t \in timers : t.id # id}

\* part_003 1637-1639 (stopAutoRefresh, 1591-1596), part_002 145-149; the
\* payment page registers no teardown hook (part_000 85-102).
OnUnmounted(v) ==
  CASE v = "stats" -> /\ timers' = Cleared(refreshInterval)
                      /\ refreshInterval' = NoTimer
    [] v = "rates" -> /\ timers' = Cleared(refreshInterval)
                      /\ UNCHANGED refreshInterval
    [] OTHER -> UNCHANGED <<refreshInterval, timers>>

\* The view's component is unmounted.
unmount ==
  /\ mounted
  /\ ~unloaded
  /\ mounted' = FALSE
  /\ OnUnmounted(view)
  /\ Quiet
  /\ UNCHANGED <<view, unloaded, now, expiresAt, timeRemaining, autoRefresh, nextTimer,
                 lastTick>>
  /\ UNCHANGED <<app, orderVars, netVars, walletVars, isInitialized, initPc, conn, viewVars,
                 server, att, fetches>>

\* part_003 1558-1563 and 1630-1635, part_002 29-38 and 140-143: a new
\* instance of the statistics or exchange-rate view is mounted (App.vue
\* part_000 938-940).
mount ==
  /\ ~mounted
  /\ ~unloaded
  /\ view \in {"stats", "rates"}
  /\ mounted' = TRUE
  /\ IF view = "stats"
       THEN /\ nextTimer <= MaxTimers
            /\ autoRefresh' = TRUE
            /\ refreshInterval' = nextTimer
            /\ timers' = timers \cup {Timer(nextTimer, "refresh", 0)}
            /\ nextTimer' = nextTimer + 1
       ELSE /\ autoRefresh' = FALSE
            /\ refreshInterval' = NoTimer
            /\ UNCHANGED <<timers, nextTimer>>
  /\ Quiet
  /\ UNCHANGED <<view, unloaded, now, expiresAt, timeRemaining, lastTick>>
  /\ UNCHANGED <<app, orderVars, netVars, walletVars, isInitialized, initPc, conn, viewVars,
                 server, att, fetches>>

\* part_003 1586-1605 and part_002 112-121: the auto-refresh button.
toggleAutoRefresh ==
  /\ mounted
  /\ view \in {"stats", "rates"}
  /\ autoRefresh' = ~autoRefresh
  /\ IF ~autoRefresh
       THEN /\ nextTimer <= MaxTimers
            /\ timers' = (IF view = "stats" THEN Cleared(refreshInterval) ELSE timers)
                            \cup {Timer(nextTimer, "refresh", 0)}
            /\ refreshInterval' = nextTimer
            /\ nextTimer' = nextTimer + 1
       ELSE /\ timers' = Cleared(refreshInterval)
            /\ refreshInterval' = NoTimer
            /\ UNCHANGED nextTimer
  /\ Quiet
  /\ UNCHANGED <<view, mounted, unloaded, now, expiresAt, timeRemaining, lastTick>>
  /\ UNCHANGED <<app, orderVars, netVars, walletVars, isInitialized, initPc, conn, viewVars,
                 server, att, fetches>>

\* part_003 1588 and part_002 116: an auto-refresh interval fires.
refresh_tick(t) ==
  /\ t.kind = "refresh"
  /\ lastTick' = Tick("refresh")
  /\ Quiet
  /\ UNCHANGED <<view, mounted, unloaded, now, expiresAt, timeRemaining, autoRefresh,
                 refreshInterval, timers, nextTimer>>
  /\ UNCHANGED <<app, orderVars, netVars, walletVars, isInitialized, initPc, conn, viewVars,
                 server, att, fetches>>

\* ------------------------------------------------------------------- Next
Vias == {"button", "call"}

\* The payment attempts of both programs.  The session comes from the
\* wallet's persisted session (init / onMounted) and goes by disconnect() or
\* the wallet's 'disconnect' event; the tool runs on its default network.
Next ==
  \/ init
  \/ init_resolve
  \/ disconnect
  \/ handleDisconnect
  \/ \E via \in Vias : pay(via)
  \/ \E i \in 1..Len(att) : pay_build(i)
  \/ \E i \in 1..Len(att) : pay_sign(i)
  \/ \E i \in 1..Len(att) : pay_send(i)
  \/ \E i \in 1..Len(att) : pay_round(i)
  \/ \E i \in 1..Len(att) : pay_confirmed(i)
  \/ \E i \in 1..Len(att), e \in ParamsThrown \cup SignThrown \cup SendThrown \cup WaitThrown :
       pay_fail(i, e)
  \/ \E via \in Vias : payCheckout(via)
  \/ \E i \in 1..Len(att) : payCheckout_build(i)
  \/ \E i \in 1..Len(att), e \in ParamsThrown : payCheckout_fail(i, e)
  \/ signAndSendTransactions
  \/ \E i \in 1..Len(att) : sas_sign(i)
  \/ \E i \in 1..Len(att) : sas_send(i)
  \/ \E i \in 1..Len(att) : sas_round(i)
  \/ \E i \in 1..Len(att) : sas_confirmed(i)
  \/ \E i \in 1..Len(att), e \in SignThrown \cup SendThrown \cup WaitThrown : sas_fail(i, e)
  \/ \E s \in Statuses : server_advance(s)
  \/ \E k \in 1..Len(fetches) : refetch_serve(k)
  \/ \E k \in 1..Len(fetches) : refetch_deliver(k)
  \/ \E k \in 1..Len(fetches) : refetch_fail(k)

InitPay == Init /\ storedNetwork = Absent

Spec == InitPay /\ [][Next]_vars

\* The wallet session and the network of both programs, for every persisted
\* network value: connect, disconnect, network switch; no payment attempt.
NextWallet ==
  \/ init
  \/ init_resolve
  \/ \E via \in Vias : connect(via)
  \/ \E i \in 1..Len(conn) : connect_restore(i)
  \/ \E i \in 1..Len(conn), a \in Accounts \cup {NoAccount} : connect_prompt(i, a)
  \/ \E i \in 1..Len(conn), e \in ConnectThrown : connect_fail(i, e)
  \/ \E via \in Vias : pageConnect(via)
  \/ \E i \in 1..Len(conn), a \in Accounts \cup {NoAccount} : pageConnect_resolve(i, a)
  \/ \E i \in 1..Len(conn), e \in ConnectThrown : pageConnect_fail(i, e)
  \/ disconnect
  \/ handleDisconnect
  \/ \E n \in NetworkId : switchNetwork(n)

SpecWallet == Init /\ [][NextWallet]_vars

\* The timers of the views: the payment page with its countdown, for every
\* expiry, and its pay attempts; the statistics and exchange-rate views of
\* the dev tool with their auto-refresh.
NextViews ==
  \/ clock_advance
  \/ \E t \in timers : updateTimeRemaining(t)
  \/ \E t \in timers : reload(t)
  \/ unmount
  \/ mount
  \/ toggleAutoRefresh
  \/ \E t \in timers : refresh_tick(t)
  \/ ~unloaded /\ init_resolve
  \/ ~unloaded /\ mounted /\ \E via \in Vias : pay(via)
  \/ ~unloaded /\ \E i \in 1..Len(att) : pay_build(i)
  \/ ~unloaded /\ \E i \in 1..Len(att) : pay_sign(i)
  \/ ~unloaded /\ \E i \in 1..Len(att) : pay_send(i)
  \/ ~unloaded /\ \E i \in 1..Len(att) : pay_confirmed(i)

InitViews ==
  /\ (InitPage \/ InitToolView)
  /\ InitCommon
  /\ record = DefaultRecord
  /\ suggestedParams = DefaultParams

SpecViews == InitViews /\ [][NextViews]_vars

\* Building the transaction group: a pay attempt up to its submission,
\* with the failures of the steps before it.
NextBuild ==
  \/ init
  \/ init_resolve
  \/ \E via \in Vias : pay(via)
  \/ \E i \in 1..Len(att) : pay_build(i)
  \/ \E i \in 1..Len(att) : pay_sign(i)
  \/ \E i \in 1..Len(att) : pay_send(i)
  \/ \E i \in 1..Len(att), e \in ParamsThrown \cup SignThrown : pay_fail(i, e)
  \/ \E via \in Vias : payCheckout(via)
  \/ \E i \in 1..Len(att) : payCheckout_build(i)
  \/ \E i \in 1..Len(att), e \in ParamsThrown : payCheckout_fail(i, e)
  \/ \E i \in 1..Len(att) : sas_sign(i)
  \/ \E i \in 1..Len(att) : sas_send(i)
  \/ \E i \in 1..Len(att), e \in SignThrown : sas_fail(i, e)

SpecBuild == InitBuild /\ [][NextBuild]_vars

\* The tool's network switch together with its pay attempts: switching
\* while an attempt whose every step succeeds is in flight.
NextSwitch ==
  \/ init
  \/ init_resolve
  \/ \E n \in NetworkId : switchNetwork(n)
  \/ \E via \in Vias : payCheckout(via)
  \/ \E i \in 1..Len(att) : payCheckout_build(i)
  \/ \E i \in 1..Len(att) : sas_sign(i)
  \/ \E i \in 1..Len(att) : sas_send(i)
  \/ \E i \in 1..Len(att) : sas_confirmed(i)

InitSwitch == InitPay /\ app = "tool" /\ checkout = "pending"

SpecSwitch == InitSwitch /\ [][NextSwitch]_vars

\* The payment page's wallet session together with its pay attempts:
\* connecting and disconnecting around attempts whose every step succeeds.
NextPageSession ==
  \/ init_resolve
  \/ \E via \in Vias : pageConnect(via)
  \/ \E i \in 1..Len(conn), a \in Accounts \cup {NoAccount} : pageConnect_resolve(i, a)
  \/ \E i \in 1..Len(conn), e \in ConnectThrown : pageConnect_fail(i, e)
  \/ disconnect
  \/ handleDisconnect
  \/ \E via \in Vias : pay(via)
  \/ \E i \in 1..Len(att) : pay_build(i)
  \/ \E i \in 1..Len(att) : pay_sign(i)
  \/ \E i \in 1..Len(att) : pay_send(i)
  \/ \E i \in 1..Len(att) : pay_confirmed(i)

InitPageSession == InitPay /\ app = "page"

SpecPageSession == InitPageSession /\ [][NextPageSession]_vars

\* ================================================================== claims
Order == <<"fetch", "build", "group", "sign", "submit", "confirm">>

IsPrefix(s, t) == Len(s) <= Len(t) /\ \A k \in 1..Len(s) : s[k] = t[k]

Pays == {i \in 1..Len(att) : att[i].kind = "pay"}

\* Every pay attempt so far was started through the view's pay button.
AllViaButton == \A i \in Pays : att[i].via = "button"

C2_StepOrder ==
  \A i \in 1..Len(att) :
    /\ IF att[i].kind = "pay"
         THEN IsPrefix(att[i].steps, Order)
         ELSE IsPrefix(att[i].steps, SubSeq(Order, 4, 6))
    /\ att[i].pc = "params" => att[i].steps = SubSeq(Order, 1, 1)
    /\ att[i].pc = "sign" => att[i].steps[Len(att[i].steps)] = "sign"
    /\ att[i].pc = "send" => att[i].steps[Len(att[i].steps)] = "submit"
    /\ att[i].pc \in {"wait", "confirmed", "resolved"}
         => att[i].steps[Len(att[i].steps)] = "confirm"
    /\ att[i].pc = "returned" => att[i].steps = <<>>

C2_Witness ==
  \E i \in Pays : att[i].pc = "confirmed" /\ att[i].steps = Order /\ success = i

\* ---- C3
Forward(s, t) ==
  \/ s = t
  \/ s = NoCheckout
  \/ s = "pending" /\ t \in {"paid", "notified", "expired", "failed"}
  \/ s = "paid" /\ t \in {"notified", "failed"}

\* C3: the status held by the view never regresses.  Stated for the runs in
\* which every attempt was started through the pay button.
C3_NeverRegresses == [][AllViaButton' => Forward(checkout, checkout')]_vars

\* ---- C4
\* C4: the step that records a confirmed transaction id as the success value
\* also moves a pending status to paid.  Stated for button-started attempts.
C4_PaidWithSuccess ==
  [][(AllViaButton' /\ success' # success /\ success' # NoTx /\ checkout = "pending")
       => checkout' = "paid"]_vars

\* ---- C5
FailedNow(i) == att[i].pc \in InFlightPcs /\ att'[i].pc = "failed"

\* C5: the step in which a pay attempt fails leaves the status and the success
\* value as they were, sets a non-empty error message and resets paying; in
\* button-driven runs no success value is left and the button is offered
\* again while the session and the pending status last.
C5_FailureStep ==
  [][\A i \in Pays :
       FailedNow(i) =>
         /\ checkout' = checkout
         /\ success' = success
         /\ error' \notin {Null, ""}
         /\ error' = att'[i].err
         /\ paying' = FALSE
         /\ AllViaButton => /\ success' = NoTx
                            /\ (isConnected /\ checkout = "pending")
                                 => (IF app = "page" THEN PayOffered'
                                                     ELSE PayCheckoutOffered')]_vars

C5_Witness ==
  \E i \in Pays :
    /\ att[i].via = "button" /\ att[i].pc = "failed"
    /\ att[i].err = "Transaction signing is cancelled"
    /\ error = att[i].err /\ success = NoTx /\ ~paying /\ checkout = "pending"

\* ---- C6
\* C6: the confirmation wait sees at most 4 rounds pass; an attempt that saw
\* 4 pass has ended with the timeout failure; the step that ends it leaves
\* the status as it was.
C6_BoundedWait ==
  /\ [](\A i \in 1..Len(att) :
          /\ att[i].rounds <= 4
          /\ att[i].pc = "wait" => att[i].rounds < 4
          /\ att[i].rounds = 4
               => /\ att[i].pc \in {"failed", "threw"}
                  /\ att[i].err = "Transaction not confirmed after 4 rounds")
  /\ [][\A i \in 1..Len(att) :
          (att[i].rounds < 4 /\ att'[i].rounds = 4)
             => checkout' = checkout /\ success' = success]_vars

C6_Witness ==
  \E i \in Pays :
    /\ att[i].rounds = 4 /\ att[i].pc = "failed" /\ checkout = "pending"
    /\ error = "Transaction not confirmed after 4 rounds" /\ ~paying

C8_SwitchClearsSession ==
  lastCall.op = "switchNetwork" =>
    IF lastCall.arg # lastCall.net
      THEN connectedAccount = NoAccount /\ ~isConnected /\ networkId = lastCall.arg
      ELSE /\ connectedAccount = lastCall.acct
           /\ networkId = lastCall.net
           /\ algodClient = lastCall.client
           /\ storedNetwork = lastCall.disk

C8_Witness ==
  /\ lastCall.op = "switchNetwork"
  /\ lastCall.acct # NoAccount
  /\ lastCall.arg # lastCall.net
  /\ networkId = lastCall.arg

\* ---- C9
\* C9: the tool's node client, whenever it exists, carries the registry
\* entry of the active network identifier.
C9_ClientMatchesNetwork ==
  (app = "tool" /\ Loaded) =>
    /\ networkId \in DOMAIN NETWORKS
    /\ algodClient.server = NETWORKS[networkId].algodServer
    /\ algodClient.port = NETWORKS[networkId].algodPort
    /\ algodClient.token = NETWORKS[networkId].algodToken

C9_Witness ==
  /\ app = "tool"
  /\ lastCall.op = "switchNetwork"
  /\ lastCall.arg # lastCall.net
  /\ algodClient # lastCall.client
  /\ algodClient.server = NETWORKS[lastCall.arg].algodServer

PromptsOf(c, i) == IF i <= Len(c) THEN c[i].prompts ELSE 0

\* C11: the interactive prompt is requested by a connect() invoked without a
\* session only when a silent restoration (connect()'s own, or the one issued
\* when the view was mounted) has been answered before without an account;
\* a restoration that yields an account establishes the session and no prompt
\* follows.
C11_RestoreFirst ==
  /\ [][\A i \in 1..Len(conn') :
          (conn'[i].had = NoAccount /\ conn'[i].prompts > PromptsOf(conn, i))
             => \/ i <= Len(conn) /\ conn[i].pc = "restore" /\ wallet = NoAccount
                \/ initPc = "done" /\ wallet = NoAccount]_vars
  /\ [][\A i \in 1..Len(conn) :
          (conn[i].pc = "restore" /\ conn'[i].pc # "restore" /\ wallet # NoAccount)
             => connectedAccount' = wallet /\ conn'[i].prompts = 0]_vars

\* ---- C12
\* C12: the step in which a connect() ends on a rejected prompt: after a
\* user abort nothing is thrown to the caller, the error value and the
\* session are as before; after any other failure an exception or an error
\* value is surfaced.
C12_CancelSilent ==
  [][\A i \in 1..Len(conn) :
       (conn[i].pc = "prompt" /\ conn'[i].pc \in {"threw", "failed"})
          => IF conn'[i].thrown = "Connect cancelled"
               THEN /\ conn'[i].pc # "threw"
                    /\ error' = error
                    /\ connectedAccount' = connectedAccount
               ELSE conn'[i].pc = "threw" \/ error' # Null]_vars

\* ---- C13
\* C13: right after disconnect() and right after the wallet's 'disconnect'
\* event was handled there is no connected account, whatever there was before.
C13_SessionDestroyed ==
  lastCall.op \in {"disconnect", "handleDisconnect"}
    => connectedAccount = NoAccount /\ ~isConnected

C13_Witness ==
  /\ lastCall.op = "disconnect"
  /\ lastCall.acct # NoAccount
  /\ connectedAccount = NoAccount

\* ---- C14
Digits == {ToString(n) : n \in 0..59}

MinutesSeconds == {m \o "m " \o sec \o "s" : m \in Digits, sec \in Digits}

\* C14: after a tick of the countdown (the call at mount included) the value
\* shown is "Expired" exactly when the tick's time was at or after expiresAt,
\* and a minutes/seconds string otherwise; once shown, "Expired" is shown
\* after every later tick.
C14_NoEarlyExpiry ==
  /\ [](lastTick.kind \in {"mount", "countdown"} =>
          /\ lastTick.at < expiresAt => timeRemaining \in MinutesSeconds
          /\ timeRemaining = "Expired" => lastTick.at >= expiresAt)
  /\ [][timeRemaining = "Expired" => timeRemaining' = "Expired"]_vars

C14_Witness ==
  /\ lastTick.kind = "countdown"
  /\ expiresAt = 1200
  /\ lastTick.at = 2000
  /\ timeRemaining = "Expired"

\* ---- C15
\* C15: at most one reload is scheduled at any time, however many ticks
\* observe the expiry.
C15_ReloadOnce == Cardinality({t \in timers : t.kind = "reload"}) <= 1

\* ---- C16
\* C16: a tick produces the expired outcome (display value and reload) only
\* when the local status is pending and the time is at or after expiresAt.
C16_ExpiryOnlyWhilePending ==
  (lastTick.kind \in {"mount", "countdown"} /\ lastTick.expired)
    => lastTick.status = "pending" /\ lastTick.at >= expiresAt

\* ---- C17
\* C17: once a view is torn down none of its periodic timers is live, and no
\* callback of one has fired in the torn-down view.
C17_TimersCancelled ==
  /\ ~mounted => {t \in timers : t.kind \in {"countdown", "refresh"}} = {}
  /\ lastTick.kind \in {"countdown", "refresh"} => lastTick.live

\* ---- C18
\* The pay attempts that have handed a group to the wallet.
Signing == {i \in Pays : "sign" \in {att[i].steps[k] : k \in 1..Len(att[i].steps)}}

Ungrouped(txns) == [k \in DOMAIN txns |-> [txns[k] EXCEPT !.group = NoGroup]]

\* C18: a group handed to the wallet has two members, the asset transfer
\* first and the application call second; both carry the same group id, it
\* is not the empty one, and it is the digest of the two transactions as
\* they are signed.
C18_GroupOfTwo ==
  \A i \in Signing :
    /\ Len(att[i].group) = 2
    /\ att[i].group[1].type = "axfer"
    /\ att[i].group[2].type = "appl"
    /\ att[i].group[1].group = att[i].group[2].group
    /\ att[i].group[1].group # NoGroup
    /\ att[i].group[1].group = GroupId(Ungrouped(att[i].group))
    /\ SubSeq(att[i].steps, 1, 4) = <<"fetch", "build", "group", "sign">>

C18_Witness ==
  \E i \in Signing : att[i].pc = "sign" /\ att[i].via = "button" /\ Len(att[i].group) = 2

\* ---- C19
\* C19: the application call carries a flat fee of twice the minimum fee the
\* node supplied.
C19_TwiceMinFee ==
  \A i \in Signing :
    /\ att[i].group[2].suggestedParams.flatFee
    /\ att[i].group[2].suggestedParams.fee = 2 * suggestedParams.minFee

\* ---- C20
\* The number eight bytes stand for, most significant first.
RECURSIVE DecodeBytes(_, _)
DecodeBytes(b, k) == IF k = 0 THEN 0 ELSE DecodeBytes(b, k - 1) * 256 + b[k]

DecodeUint64(b) == DecodeBytes(b, 8)

Text(v) == IF v = Null THEN "" ELSE v

\* C20: the application call is a NoOp call with the checkout's asset as its
\* foreign asset and the merchant address as its foreign account; its six
\* arguments are the selector, the checkout id, the merchant address, the
\* merchant name (empty when absent), the amount and the note (empty when
\* absent), each in its encoding.
C20_AppCall ==
  \A i \in Signing :
    LET call == att[i].group[2]
        args == call.appArgs
    IN /\ call.onComplete = "NoOpOC"
       /\ call.foreignAssets = <<record.assetId>>
       /\ call.accounts = <<record.merchantWallet>>
       /\ call.appIndex = record.appId
       /\ Len(args) = 6
       /\ args[1] = [selectorOf |->
                       "payCheckout(axfer,string,address,string,uint64,string)void"]
       /\ args[2].abi = "string" /\ args[2].utf8 = record.id
       /\ args[2].len = Len(record.id)
       /\ args[3] = [abi |-> "address", publicKey |-> record.merchantWallet]
       /\ args[4].abi = "string" /\ args[4].utf8 = Text(record.merchantName)
       /\ args[4].len = Len(Text(record.merchantName))
       /\ Len(args[5]) = 8 /\ DecodeUint64(args[5]) = record.amount
       /\ \A k \in 1..8 : args[5][k] \in 0..255
       /\ args[6].abi = "string" /\ args[6].utf8 = Text(record.note)
       /\ args[6].len = Len(Text(record.note))

C20_Witness ==
  \E i \in Signing :
    /\ record.merchantName = Null
    /\ record.note = Null
    /\ record.amount = 2500000
    /\ att[i].group[2].appArgs[4].len = 0

\* ---- C21
\* C21: the first transaction of a group handed to the wallet transfers the
\* record's amount of the record's asset from the connected account to the
\* address derived from the record's program id, with the parameters the
\* node answered, unmodified.
C21_AssetTransfer ==
  \A i \in Signing :
    LET xfer == att[i].group[1]
    IN /\ xfer.type = "axfer"
       /\ xfer.amount = record.amount
       /\ xfer.assetIndex = record.assetId
       /\ xfer.sender = connectedAccount
       /\ xfer.sender \in Accounts
       /\ xfer.receiver = [derivedFrom |-> record.appId]
       /\ xfer.suggestedParams = suggestedParams

C21_Witness ==
  \E i \in Signing :
    /\ record.amount = 1
    /\ suggestedParams.minFee = 2000
    /\ att[i].group[1].sender = "ADDR1"

\* ---- C22
StepsOf(i) == {att[i].steps[k] : k \in 1..Len(att[i].steps)}

Unbuildable == record.appId = NoAppId \/ ~IsAddress(record.merchantWallet)

\* C22: with an absent program id or an argument that cannot be encoded no
\* attempt reaches the signing request; an attempt that failed before the
\* signing request has asked for no signature, one that failed at the
\* signing request has submitted nothing; a failed attempt stays as it is;
\* the step in which an attempt fails sets a non-empty error value and
\* leaves no success value.
C22_FailureEnds ==
  /\ [](\A i \in Pays :
          /\ Unbuildable => StepsOf(i) \subseteq {"fetch"}
          /\ (att[i].pc = "failed" /\ att[i].group = <<>>) => StepsOf(i) = {"fetch"}
          /\ att[i].pc = "failed" => "submit" \notin StepsOf(i))
  /\ [][\A i \in Pays :
          /\ att[i].pc = "failed" => att'[i] = att[i]
          /\ FailedNow(i) =>
                /\ att'[i].steps = att[i].steps
                /\ error' \notin {Null, ""}
                /\ error' = att'[i].err
                /\ success' = NoTx]_vars

C22_Witness ==
  \E i \in Pays :
    /\ record.appId = NoAppId
    /\ att[i].pc = "failed"
    /\ att[i].steps = <<"fetch">>
    /\ error = "Cannot convert undefined to a BigInt"
    /\ success = NoTx
    /\ ~paying

\* ---- C24
\* C24: once a pay attempt of the view has been confirmed, no further pay
\* attempt is started from the view's pay button.
C24_PaidOnce ==
  [][(/\ Len(att') = Len(att) + 1
      /\ att'[Len(att')].kind = "pay"
      /\ att'[Len(att')].via = "button"
      /\ att'[Len(att')].pc \in InFlightPcs)
     => \A i \in Pays : att[i].pc # "confirmed"]_vars

\* ---- C27
\* C27: the step that sends an attempt's signed transactions to the node is
\* taken only while a wallet session is connected.
C27_SubmitConnected ==
  [][\A i \in 1..Len(att) :
       (i <= Len(att') /\ att[i].pc = "sign" /\ att'[i].pc = "send")
         => connectedAccount # NoAccount]_vars

C30_NetworkInRegistry ==
  app = "tool" =>
    /\ networkId \in DOMAIN NETWORKS
    /\ storedNetwork = Absent => networkId = "testnet"
    /\ (lastCall.op = "switchNetwork" /\ lastCall.arg # lastCall.net)
          => (storedNetwork = networkId /\ networkId = lastCall.arg)

\* ---- C26
\* A call that cleared a session: disconnect() or a switch to another
\* network, made while an account was connected.
ClearedByLastCall ==
  /\ lastCall.acct # NoAccount
  /\ \/ lastCall.op = "disconnect"
     \/ lastCall.op = "switchNetwork" /\ lastCall.arg # lastCall.net

\* C26: right after a call that cleared the session, a step that invokes no
\* new connect() (the answer to a wallet request made earlier by connect()
\* or init()) leaves the connected account null.
C26_NoLateSession ==
  [][(ClearedByLastCall /\ conn' # conn /\ Len(conn') = Len(conn))
       => connectedAccount' = NoAccount]_vars

\* ---- C25
\* C25: a pay attempt submits its group to the node it fetched the
\* parameters from, and waits for the confirmation on the node it submitted
\* to.
C25_OneNetwork ==
  \A i \in Pays :
    /\ att[i].snet # NoClient => att[i].snet = att[i].pnet
    /\ att[i].wnet # NoClient => att[i].wnet = att[i].snet

\* ---- C29
\* C29: the success value and the error value are never both set, and a
\* success value is the transaction of a pay attempt that was confirmed.
C29_SuccessXorError ==
  /\ ~(success # NoTx /\ error \notin {Null, ""})
  /\ success # NoTx => (success \in Pays /\ att[success].pc = "confirmed")

\* ---- C23
\* C23: no started pay attempt is cancelled part-way: an attempt in flight
\* always has its document to complete in, so that it ends with a success
\* or an error and the paying flag returns to false once its awaited
\* operations have answered.
C23_NotCancelled ==
  \A i \in Pays : att[i].pc \in InFlightPcs => ~unloaded

====
